---- MODULE Spec2Model ----
(***************************************************************************)
(* Client-side usage-event logger of cvat-core: the Log class (log.js)     *)
(* and the LoggerStorage singleton that buffers logs and flushes them to   *)
(* the server (logger-storage module, src/unnamed/part_000).               *)
(*                                                                         *)
(* JavaScript runs every synchronous function to completion, so each       *)
(* `.implementation` body is one action; the only suspension point is the  *)
(* `await server.logs.save(...)` of save.implementation, which is split    *)
(* into the call (SaveStart) and its two outcomes (SaveResolve,            *)
(* SaveReject).                                                            *)
(***************************************************************************)
EXTENDS Integers, Sequences, FiniteSets, TLC

\* ------------------------------------------------------------------ bounds
MaxLogs == 2        \* Log objects constructed in one run
MaxPending == 2     \* server.logs.save calls awaiting their outcome at one time
MaxTime == 1        \* last value Date.now() returns
MaxClose == 2       \* calls of Log.close in one run
MaxHeld == 1        \* records a caller holds and closes, where only records are followed

VARIABLES
    clientID,       \* LoggerStorage.clientID
    collection,     \* LoggerStorage.collection: sequence of references to Log objects
    logs,           \* the heap of Log objects, indexed by reference
    opened,         \* per Log object: the type and payload it was opened with
    hookCalls,      \* per Log object: how often a registered onCloseCallback has run
    pending,        \* the server.logs.save calls awaiting their outcome, oldest first
    now,            \* the value Date.now() returned last
    focus,          \* what the Log constructor reads for isActive
    closes,         \* number of Log.close calls so far
    lastOp,         \* the operation that produced the current state, with its outcome
    result          \* what the last call of dump or logFactory returned

vars == <<clientID, collection, logs, opened, hookCalls, pending, now, focus, closes, lastOp, result>>

\* --------------------------------------------------------- JavaScript values
\* A value stored under a key of a payload object.
IntV(n) == [kind |-> "int", n |-> n]
StrV(n) == [kind |-> "str", n |-> n]
\* A value that refers back to the object holding it: JSON.stringify throws on it.
Circular == [kind |-> "circular", n |-> 0]

EmptyObject == [k \in {} |-> IntV(0)]
Object1(k, v) == [x \in {k} |-> v]

\* An argument as the callee sees it: typeof, and the object when it is one.
Obj(o) == [t |-> "object", b |-> FALSE, o |-> o]
Bool(b) == [t |-> "boolean", b |-> b, o |-> EmptyObject]
Undefined == [t |-> "undefined", b |-> FALSE, o |-> EmptyObject]
StringArg == [t |-> "string", b |-> FALSE, o |-> EmptyObject]
\* null: typeof null is "object", { ...null } has no properties, JSON.stringify(null)
\* does not throw.
NullArg == [t |-> "object", b |-> FALSE, o |-> EmptyObject, null |-> TRUE]

\* { ...a, ...b } on objects: the keys of both, b winning.
Merge(a, b) == [k \in DOMAIN a \cup DOMAIN b |-> IF k \in DOMAIN b THEN b[k] ELSE a[k]]

\* { ...v } of an argument: own enumerable properties; none for undefined or a boolean.
Spread(v) == IF v.t = "object" THEN v.o ELSE EmptyObject

\* Whether JSON.stringify(v) throws: only an object holding a circular value does;
\* JSON.stringify(undefined) returns undefined without throwing.
JSONStringifyThrows(v) == v.t = "object" /\ \E k \in DOMAIN v.o : v.o[k].kind = "circular"

Without(o, k) == [x \in DOMAIN o \ {k} |-> o[x]]

Range(s) == {s[i] : i \in DOMAIN s}

\* ------------------------------------------------------------------ inputs
ClientIDs == {StrV(1)}
FocusStates == {"undefined", "true"}

\* The (logType, payload) pairs callers pass to LoggerStorage.put.
PutInputs ==
    { <<"X", Object1("a", IntV(1))>>,
      <<"X", Object1("a", Circular)>>,
      <<"deleteObject", Object1("count", IntV(0))>>,
      <<"sendTaskInfo", EmptyObject>> }

\* The payloads callers pass to the Log constructor directly.
NewInputs ==
    { Obj(EmptyObject),
      Obj(Object1("a", IntV(1))),
      Obj(Merge(Merge(Object1("client_id", StrV(1)), Object1("job_id", IntV(3))),
                Object1("a", IntV(1)))),
      Obj(Merge(Object1("task_id", IntV(4)), Object1("job_id", IntV(3)))),
      Obj(Object1("a", Circular)) }

\* The arguments callers pass to Log.close.
CloseInputs ==
    { Obj(EmptyObject),
      Obj(Object1("outcome", StrV(7))),
      Obj(Object1("duration", IntV(9))),
      Obj(Object1("a", Circular)),
      StringArg,
      NullArg }

Null == "null"
Callback == "callback"

\* What lastOp holds: the operation, whether put was called with wait, how the call
\* ended and the reference it returned or acted on (0 when it threw).
NoOp == [op |-> "init", wait |-> FALSE, status |-> "ok", ret |-> 0]
Op(op, wait, status, ret) == [op |-> op, wait |-> wait, status |-> status, ret |-> ret]
\* A call of close also holds the argument it was given.
CloseOp(status, ret, arg) ==
    [op |-> "close", wait |-> FALSE, status |-> status, ret |-> ret, arg |-> arg]
NoResult == [op |-> "none"]

\* ------------------------------------------------------------------- Log
\* Log.constructor: whether it throws ArgumentError.
LogConstructorThrows(payload) == JSONStringifyThrows(payload)

\* Log.constructor: the object it builds when it does not throw.
LogConstructor(logType, isDurable, payload, time, isActive) ==
    [type |-> logType,
     isDurable |-> isDurable,
     payload |-> Spread(payload),
     onCloseCallback |-> Null,
     time |-> time,
     isActive |-> isActive]

\* A changed lift: the key is copied to the body and left in the payload copy.
LiftKeepsKey(bp, k) ==
    IF k \in DOMAIN bp.payload
    THEN [body |-> Merge(bp.body, Object1(k, bp.payload[k])), payload |-> bp.payload]
    ELSE bp

\* Log.dump: lifts one reserved key from the payload copy to the body.
Lift(bp, k) ==
    IF k \in DOMAIN bp.payload
    THEN [body |-> Merge(bp.body, Object1(k, bp.payload[k])), payload |-> Without(bp.payload, k)]
    ELSE bp

\* Log.dump
dump(log) ==
    LET base == [k \in {"name", "time"} |-> IF k = "name" THEN log.type ELSE log.time]
        body == IF log.isActive # "undefined"
                THEN Merge(base, Object1("is_active", log.isActive))
                ELSE base
        l1 == Lift([body |-> body, payload |-> log.payload], "client_id")
        l2 == Lift(l1, "job_id")
        l3 == Lift(l2, "task_id")
    IN  Merge(l3.body, Object1("payload", l3.payload))

\* Number.isInteger(payload[k]): false for a missing key (undefined)
IsInteger(o, k) == k \in DOMAIN o /\ o[k].kind = "int"

\* One check of a subclass constructor: !Number.isInteger(payload[k]) || payload[k] < min
FieldFails(o, k, min) == ~IsInteger(o, k) \/ o[k].n < min

\* A changed check: a count of 0 is let through (count < 0 for count < 1).
DeleteObjectLogThrowsBelowZero(payload) ==
    LogConstructorThrows(payload) \/ FieldFails(Spread(payload), "count", 0)

\* DeleteObjectLog.constructor: whether it throws ArgumentError
DeleteObjectLogThrows(payload) ==
    LogConstructorThrows(payload) \/ FieldFails(Spread(payload), "count", 1)

\* A changed check: a frame count of 0 is let through.
SendTaskInfoLogThrowsFrameZero(payload) ==
    \/ LogConstructorThrows(payload)
    \/ FieldFails(Spread(payload), "track count", 0)
    \/ FieldFails(Spread(payload), "frame count", 0)
    \/ FieldFails(Spread(payload), "object count", 0)
    \/ FieldFails(Spread(payload), "box count", 0)
    \/ FieldFails(Spread(payload), "polygon count", 0)
    \/ FieldFails(Spread(payload), "polyline count", 0)
    \/ FieldFails(Spread(payload), "points count", 0)

\* SendTaskInfoLog.constructor: whether it throws ArgumentError
SendTaskInfoLogThrows(payload) ==
    \/ LogConstructorThrows(payload)
    \/ FieldFails(Spread(payload), "track count", 0)
    \/ FieldFails(Spread(payload), "frame count", 1)
    \/ FieldFails(Spread(payload), "object count", 0)
    \/ FieldFails(Spread(payload), "box count", 0)
    \/ FieldFails(Spread(payload), "polygon count", 0)
    \/ FieldFails(Spread(payload), "polyline count", 0)
    \/ FieldFails(Spread(payload), "points count", 0)

\* The tags logFactory recognizes and builds nothing for.
Unimplemented ==
    {"loadJob", "mergeObjects", "copyObject", "propagateObject", "undoAction",
     "redoAction", "sendUserActivity", "sendException"}

\* The field the message of the error thrown by DeleteObjectLog.constructor names:
\* "" for the serialization error of the base constructor, "none" when nothing is thrown
DeleteObjectLogError(payload) ==
    IF LogConstructorThrows(payload) THEN ""
    ELSE IF FieldFails(Spread(payload), "count", 1) THEN "count"
    ELSE "none"

\* The field the message of the error thrown by SendTaskInfoLog.constructor names
SendTaskInfoLogError(payload) ==
    IF LogConstructorThrows(payload) THEN ""
    ELSE IF FieldFails(Spread(payload), "track count", 0) THEN "track count"
    ELSE IF FieldFails(Spread(payload), "frame count", 1) THEN "frame count"
    ELSE IF FieldFails(Spread(payload), "object count", 0) THEN "object count"
    ELSE IF FieldFails(Spread(payload), "box count", 0) THEN "box count"
    ELSE IF FieldFails(Spread(payload), "polygon count", 0) THEN "polygon count"
    ELSE IF FieldFails(Spread(payload), "polyline count", 0) THEN "polyline count"
    ELSE IF FieldFails(Spread(payload), "points count", 0) THEN "points count"
    ELSE "none"

\* The field the message of the error thrown by logFactory names
logFactoryError(logType, payload) ==
    IF logType = "deleteObject" THEN DeleteObjectLogError(payload)
    ELSE IF logType = "sendTaskInfo" THEN SendTaskInfoLogError(payload)
    ELSE IF logType \in Unimplemented THEN "none"
    ELSE IF LogConstructorThrows(payload) THEN "" ELSE "none"

\* A changed dispatch: the final else branch is missing, so a tag that is not
\* recognized builds nothing.
logFactoryNoElse(logType, payload) ==
    IF logType = "deleteObject"
    THEN IF DeleteObjectLogThrows(payload) THEN "ArgumentError" ELSE "Log"
    ELSE IF logType = "sendTaskInfo"
    THEN IF SendTaskInfoLogThrows(payload) THEN "ArgumentError" ELSE "Log"
    ELSE "undefined"

\* logFactory: how a call ends, "Log" for a record, "undefined" for no record
logFactory(logType, payload) ==
    IF logType = "deleteObject"
    THEN IF DeleteObjectLogThrows(payload) THEN "ArgumentError" ELSE "Log"
    ELSE IF logType = "sendTaskInfo"
    THEN IF SendTaskInfoLogThrows(payload) THEN "ArgumentError" ELSE "Log"
    ELSE IF logType \in Unimplemented
    THEN "undefined"
    ELSE IF LogConstructorThrows(payload) THEN "ArgumentError" ELSE "Log"

\* ------------------------------------------------------------ LoggerStorage
Init ==
    /\ clientID \in ClientIDs
    /\ collection = <<>>
    /\ logs = <<>>
    /\ opened = <<>>
    /\ hookCalls = <<>>
    /\ pending = <<>>
    /\ now = 0
    /\ focus \in FocusStates
    /\ closes = 0
    /\ lastOp = NoOp
    /\ result = NoResult

\* A changed push: the log is put at the front of the collection (unshift).
pushFront(coll, ref) == <<ref>> \o coll

\* this.collection.push(log)
push(coll, ref) == Append(coll, ref)

\* The arguments put.implementation gives the Log constructor: new Log(logType,
\* { ...payload, client_id }) binds the object to the parameter isDurable and leaves
\* the parameter payload undefined.
PutConstructorArgs(payload) ==
    [isDurable |-> Obj(Merge(payload, Object1("client_id", clientID))),
     payload |-> Undefined]

\* LoggerStorage.prototype.put.implementation; t is what new Date() reads
Put(logType, wait, payload, t) ==
    LET args == PutConstructorArgs(payload)
        log == LogConstructor(logType, args.isDurable, args.payload, t, focus)
        ref == Len(logs) + 1
    IN  /\ Len(logs) < MaxLogs
        /\ now' = t
        /\ IF LogConstructorThrows(args.payload)
           THEN /\ lastOp' = Op("put", wait, "ArgumentError", 0)
                /\ UNCHANGED <<collection, logs, opened, hookCalls>>
           ELSE IF wait
           THEN \* log.onCloseCallback(...) calls the field, which the constructor set to null
                IF log.onCloseCallback = Null
                THEN /\ lastOp' = Op("put", wait, "TypeError", 0)
                     /\ UNCHANGED <<collection, logs, opened, hookCalls>>
                ELSE /\ logs' = Append(logs, log)
                     /\ opened' = Append(opened, [logType |-> logType, wait |-> wait, payload |-> payload])
                     /\ hookCalls' = Append(hookCalls, 1)
                     /\ lastOp' = Op("put", wait, "ok", ref)
                     /\ UNCHANGED collection
           ELSE /\ logs' = Append(logs, log)
                /\ opened' = Append(opened, [logType |-> logType, wait |-> wait, payload |-> payload])
                /\ hookCalls' = Append(hookCalls, 0)
                /\ collection' = push(collection, ref)
                /\ lastOp' = Op("put", wait, "ok", ref)
        /\ UNCHANGED <<clientID, pending, focus, closes, result>>

\* A changed argument: the dumps of all logs but the first of the collection.
SaveArgSkipsFirst(coll) == [i \in 1..(Len(coll) - 1) |-> dump(logs[coll[i + 1]])]

\* The array save.implementation hands to server.logs.save
SaveArg(coll) == [i \in 1..Len(coll) |-> dump(logs[coll[i]])]

\* A changed flush: the collection is handed over and reset before the await.
SaveStartClears ==
    /\ Len(pending) < MaxPending
    /\ pending' = Append(pending, [arr |-> SaveArg(collection), refs |-> collection])
    /\ collection' = <<>>
    /\ lastOp' = Op("save", FALSE, "pending", Len(pending) + 1)
    /\ UNCHANGED <<clientID, logs, opened, hookCalls, now, focus, closes, result>>

\* save.implementation up to its await: the transport call is made with the dumps of
\* the logs in the collection, and the collection is left as it is. refs remembers
\* which Log objects the collection held at the call.
SaveStart ==
    /\ Len(pending) < MaxPending
    /\ pending' = Append(pending, [arr |-> SaveArg(collection), refs |-> collection])
    /\ lastOp' = Op("save", FALSE, "pending", Len(pending) + 1)
    /\ UNCHANGED <<clientID, collection, logs, opened, hookCalls, now, focus, closes, result>>

\* What save.implementation assigns to this.collection once the transport call resolved.
AfterSave(coll) == <<>>

\* A changed failure path: the collection is reset although the call rejected.
AfterFailedSaveResets(coll) == <<>>

\* What is left in this.collection when the transport call rejected.
AfterFailedSave(coll) == coll

Remove(s, f) == [i \in 1..(Len(s) - 1) |-> IF i < f THEN s[i] ELSE s[i + 1]]

\* save.implementation after its await, the transport call having resolved
SaveResolve(f) ==
    /\ f \in DOMAIN pending
    /\ pending' = Remove(pending, f)
    /\ collection' = AfterSave(collection)
    /\ lastOp' = Op("save", FALSE, "ok", f)
    /\ UNCHANGED <<clientID, logs, opened, hookCalls, now, focus, closes, result>>

\* save.implementation after its await, the transport call having rejected: the await
\* throws, the assignment is not reached and the rejection reaches the caller of save.
SaveReject(f) ==
    /\ f \in DOMAIN pending
    /\ pending' = Remove(pending, f)
    /\ collection' = AfterFailedSave(collection)
    /\ lastOp' = Op("save", FALSE, "TransportError", f)
    /\ UNCHANGED <<clientID, logs, opened, hookCalls, now, focus, closes, result>>

\* Log.onClose
onClose(log, callback) == [log EXCEPT !.onCloseCallback = callback]

\* A caller registers a callback of its own on a log it holds.
OnClose(ref) ==
    /\ ref \in DOMAIN logs
    /\ logs[ref].onCloseCallback = Null
    /\ logs' = [logs EXCEPT ![ref] = onClose(logs[ref], Callback)]
    /\ lastOp' = Op("onClose", FALSE, "ok", ref)
    /\ UNCHANGED <<clientID, collection, opened, hookCalls, pending, now, focus, closes, result>>

\* close.implementation: whether it throws ArgumentError
CloseThrows(payload) == payload.t # "object" \/ JSONStringifyThrows(payload)

\* A changed close: the duration is written after the caller's fields are merged.
ClosePayloadDurationLast(log, payload, t) ==
    Merge(Merge(log.payload, payload.o), Object1("duration", IntV(t - log.time)))

\* close.implementation: the payload it leaves in the log; t is what Date.now() reads
ClosePayload(log, payload, t) ==
    Merge(Merge(log.payload, Object1("duration", IntV(t - log.time))), payload.o)

\* close.implementation: the number of runs of the callback after the call
InvokeOnCloseCallback(log, n) == IF log.onCloseCallback # Null THEN n + 1 ELSE n

\* Log.prototype.close.implementation
Close(ref, payload, t) ==
    /\ ref \in DOMAIN logs
    /\ closes < MaxClose
    /\ closes' = closes + 1
    /\ IF CloseThrows(payload)
       THEN /\ lastOp' = CloseOp("ArgumentError", ref, payload)
            /\ UNCHANGED <<logs, hookCalls, now>>
       ELSE /\ logs' = [logs EXCEPT ![ref].payload = ClosePayload(logs[ref], payload, t)]
            /\ hookCalls' = [hookCalls EXCEPT ![ref] = InvokeOnCloseCallback(logs[ref], @)]
            /\ now' = t
            /\ lastOp' = CloseOp("ok", ref, payload)
    /\ UNCHANGED <<clientID, collection, opened, pending, focus, result>>

\* new Log(logType, isDurable, payload), called by a holder of the exported class;
\* t is what new Date() reads
New(logType, isDurable, payload, t) ==
    /\ Len(logs) < MaxHeld
    /\ IF LogConstructorThrows(payload)
       THEN /\ lastOp' = Op("new", FALSE, "ArgumentError", 0)
            /\ UNCHANGED <<logs, opened, hookCalls, now>>
       ELSE /\ logs' = Append(logs, LogConstructor(logType, isDurable, payload, t, focus))
            /\ opened' = Append(opened, [logType |-> logType, wait |-> FALSE,
                                         payload |-> Spread(payload)])
            /\ hookCalls' = Append(hookCalls, 0)
            /\ now' = t
            /\ lastOp' = Op("new", FALSE, "ok", Len(logs) + 1)
    /\ UNCHANGED <<clientID, collection, pending, focus, closes, result>>

\* A changed dump: the reserved keys are deleted from this.payload itself, not from
\* a copy of it.
AfterDumpDeletes(log) ==
    [log EXCEPT !.payload = Without(Without(Without(@, "client_id"), "job_id"), "task_id")]

\* The record after dump(): dump works on a copy of this.payload and assigns nothing
\* to the record.
AfterDump(log) == log

\* Log.dump, called on a record
Dump(ref) ==
    /\ ref \in DOMAIN logs
    /\ result' = [op |-> "dump", ref |-> ref, out |-> dump(logs[ref])]
    /\ logs' = [logs EXCEPT ![ref] = AfterDump(logs[ref])]
    /\ lastOp' = Op("dump", FALSE, "ok", ref)
    /\ UNCHANGED <<clientID, collection, opened, hookCalls, pending, now, focus, closes>>

\* The values Date.now() can return next.
Clock == {t \in now..(now + 1) : t <= MaxTime}

\* The store: opening events and flushing the buffer.
Next ==
    \/ \E inp \in PutInputs, wait \in BOOLEAN, t \in Clock : Put(inp[1], wait, inp[2], t)
    \/ SaveStart
    \/ \E f \in 1..MaxPending : SaveResolve(f)
    \/ \E f \in 1..MaxPending : SaveReject(f)

Spec == Init /\ [][Next]_vars

\* The life of the records the store returns: opening, registering a close callback
\* and closing. close touches nothing but its own record, so few records are followed.
NextLog ==
    \/ \E inp \in PutInputs, wait \in BOOLEAN, t \in Clock :
          Len(logs) < MaxHeld /\ Put(inp[1], wait, inp[2], t)
    \/ \E ref \in 1..MaxLogs : OnClose(ref)
    \/ \E ref \in 1..MaxLogs, payload \in CloseInputs, t \in Clock : Close(ref, payload, t)

SpecLog == Init /\ [][NextLog]_vars

\* The Log class on its own: records built directly, closed and dumped.
NextRecord ==
    \/ \E payload \in NewInputs, t \in Clock : New("X", Bool(TRUE), payload, t)
    \/ \E ref \in 1..MaxLogs, payload \in CloseInputs, t \in Clock : Close(ref, payload, t)
    \/ \E ref \in 1..MaxLogs : Dump(ref)

SpecRecord == Init /\ [][NextRecord]_vars

\* The store with a transport whose calls all resolve, and callers that close the
\* records put returned to them.
NextReliable ==
    \/ \E inp \in PutInputs, wait \in BOOLEAN, t \in Clock : Put(inp[1], wait, inp[2], t)
    \/ SaveStart
    \/ \E f \in 1..MaxPending : SaveResolve(f)
    \/ \E ref \in 1..MaxLogs, t \in Clock : Close(ref, Obj(EmptyObject), t)

SpecReliable == Init /\ [][NextReliable]_vars

\* A number that is no integer.
Float == [kind |-> "float", n |-> 1]

\* The payloads logFactory is given for delete-object, unimplemented and other tags:
\* count missing, of each kind and on both sides of 1, with and without a value that
\* cannot be serialized.
CountPayloads ==
    LET counts == {IntV(-1), IntV(0), IntV(1), IntV(2), Float, StrV(1)}
        plain == {EmptyObject} \cup {Object1("count", c) : c \in counts}
    IN  plain \cup {Merge(o, Object1("a", Circular)) : o \in plain}

TaskInfoFields ==
    <<"track count", "frame count", "object count", "box count", "polygon count",
      "polyline count", "points count">>

\* The payloads logFactory is given for send-task-info: each field missing or on
\* either side of its least value, with and without a value that cannot be serialized.
TaskInfoPayloads ==
    LET plain == UNION {[K -> {IntV(-1), IntV(0), IntV(1)}] : K \in SUBSET Range(TaskInfoFields)}
    IN  plain \cup {Merge(o, Object1("a", Circular)) : o \in plain}

\* The (logType, payload) pairs logFactory is called with.
FactoryInputs ==
    ((Unimplemented \cup {"deleteObject", "X", "Y"}) \X CountPayloads)
        \cup ({"sendTaskInfo"} \X TaskInfoPayloads)

\* logFactory(logType, isDurable, payload), a function of its arguments: one call.
Factory(logType, payload) ==
    /\ result' = [op |-> "logFactory", logType |-> logType, payload |-> payload,
                  returns |-> logFactory(logType, Obj(payload)),
                  field |-> logFactoryError(logType, Obj(payload))]
    /\ lastOp' = Op("logFactory", FALSE, logFactory(logType, Obj(payload)), 0)
    /\ UNCHANGED <<clientID, collection, logs, opened, hookCalls, pending, now, focus, closes>>

\* One call in a run: the outcome of a call does not depend on the calls before it.
NextFactory == result = NoResult /\ \E inp \in FactoryInputs : Factory(inp[1], inp[2])

SpecFactory == Init /\ [][NextFactory]_vars

\* -------------------------------------------------------------- properties
\* The step just taken is the resolution of the pending transport call f.
ResolvedStep(f) ==
    /\ lastOp'.op = "save" /\ lastOp'.status = "ok" /\ lastOp'.ret = f
    /\ f \in DOMAIN pending /\ pending' = Remove(pending, f)

\* The step just taken made a transport call.
SaveStartStep ==
    /\ lastOp'.op = "save" /\ lastOp'.status = "pending"
    /\ Len(pending') = Len(pending) + 1

\* C1: a record appended to the buffer while a flush's transport call is pending is
\* not dropped: when that flush completes, every record of the buffer that was not
\* part of the flush is still in the buffer.
C1_AppendedDuringFlushKept ==
    [][\A f \in 1..MaxPending :
          ResolvedStep(f) =>
              \A i \in DOMAIN collection :
                  collection[i] \notin Range(pending[f].refs)
                      => collection[i] \in Range(collection')]_vars

\* C2: the array a flush hands to Transport.save holds the dumps of exactly the
\* records the buffer held when the flush started, in order, and while the call is
\* pending no later operation changes that array.
C2_FlushArrayIsSnapshot ==
    [][/\ SaveStartStep =>
            LET call == pending'[Len(pending')]
            IN  /\ call.refs = collection
                /\ Len(call.arr) = Len(collection)
                /\ \A i \in DOMAIN collection : call.arr[i] = dump(logs[collection[i]])
       /\ Len(pending') >= Len(pending) =>
            \A f \in DOMAIN pending : pending'[f] = pending[f]]_vars

\* C2 witness: a record was appended to the buffer while a transport call made with a
\* non-empty array is pending, and the array is one record shorter than the buffer.
C2_Witness ==
    /\ lastOp.op = "put" /\ lastOp.status = "ok"
    /\ \E f \in DOMAIN pending :
          /\ Len(pending[f].arr) >= 1
          /\ Len(collection) = Len(pending[f].arr) + 1
          /\ lastOp.ret \notin Range(pending[f].refs)

\* C3: Store.open with wait = true succeeds, returns the still-open record and leaves
\* the buffer without it.
C3_DurableOpenSucceeds ==
    (lastOp.op = "put" /\ lastOp.wait) =>
        /\ lastOp.status = "ok"
        /\ lastOp.ret \in DOMAIN logs
        /\ lastOp.ret \notin Range(collection)

\* C4: Store.open with wait = false succeeds, builds one record, appends it to the end
\* of the buffer, leaving the earlier records as they were, and returns that record.
C4_NonDurableOpenAppends ==
    [][(lastOp'.op = "put" /\ ~lastOp'.wait) =>
          /\ lastOp'.status = "ok"
          /\ Len(logs') = Len(logs) + 1
          /\ lastOp'.ret = Len(logs')
          /\ collection' = Append(collection, lastOp'.ret)]_vars

\* C4 witness: a non-durable open has appended its record behind an earlier one.
C4_Witness ==
    /\ lastOp.op = "put" /\ ~lastOp.wait /\ lastOp.status = "ok"
    /\ Len(collection) >= 2
    /\ collection[Len(collection)] = lastOp.ret

\* The payload without the keys dump lifts to the top level.
StripReserved(o) == [k \in DOMAIN o \ {"client_id", "job_id", "task_id"} |-> o[k]]

\* C5: the payload passed to Store.open reaches the transport: every element a flush
\* hands to Transport.save for a generic event opened with a serializable payload P
\* has the event's type as name and P, minus the reserved keys, as nested payload.
C5_PayloadReachesTransport ==
    \A f \in DOMAIN pending : \A i \in DOMAIN pending[f].arr :
        LET o == opened[pending[f].refs[i]]
        IN  (logFactory(o.logType, Obj(o.payload)) = "Log" /\ o.logType = "X") =>
                /\ pending[f].arr[i]["name"] = o.logType
                /\ pending[f].arr[i]["payload"] = StripReserved(o.payload)

\* C6: every record the store created carries the store's session identifier as
\* client_id in its payload, and every element handed to Transport.save has it as
\* top-level client_id.
C6_ClientIdOnEveryRecord ==
    /\ \A ref \in DOMAIN logs :
          /\ "client_id" \in DOMAIN logs[ref].payload
          /\ logs[ref].payload["client_id"] = clientID
    /\ \A f \in DOMAIN pending : \A i \in DOMAIN pending[f].arr :
          /\ "client_id" \in DOMAIN pending[f].arr[i]
          /\ pending[f].arr[i]["client_id"] = clientID

\* C7: the close callback of a record runs at most once over the record's lifetime,
\* and not before the record has been closed.
C7_HookRunsOnce ==
    \A ref \in DOMAIN logs :
        /\ hookCalls[ref] <= 1
        /\ hookCalls[ref] >= 1 => "duration" \in DOMAIN logs[ref].payload

\* C8: every record Store.open created has passed the Event Factory's checks for its
\* type: the factory returns a record for the type and payload it was opened with.
C8_OpenedThroughFactory ==
    \A ref \in DOMAIN logs :
        (opened[ref].logType \in {"deleteObject", "sendTaskInfo"}) =>
            logFactory(opened[ref].logType, Obj(opened[ref].payload)) = "Log"

\* C9: no record exists for an open whose payload is not JSON-serializable, and the
\* buffer holds none.
C9_NoRecordForUnserializable ==
    /\ \A ref \in DOMAIN logs : ~JSONStringifyThrows(Obj(opened[ref].payload))
    /\ \A i \in DOMAIN collection : ~JSONStringifyThrows(Obj(opened[collection[i]].payload))

IsObject(v) == v.t = "object" /\ v # NullArg

\* C12: close fails with a validation error whenever its argument is not an object or
\* is not JSON-serializable, and a failed close leaves the record, its callback count
\* and the buffer as they were.
C12_CloseRejectsBadPayload ==
    [][lastOp'.op = "close" =>
          /\ (~IsObject(lastOp'.arg) \/ JSONStringifyThrows(lastOp'.arg))
                => lastOp'.status = "ArgumentError"
          /\ lastOp'.status = "ArgumentError" =>
                /\ logs' = logs
                /\ hookCalls' = hookCalls
                /\ collection' = collection]_vars

\* C13: after a successful close the payload holds the keys of the payload before,
\* duration and the keys of the argument; every key of the argument has the
\* argument's value, every other key but duration keeps its value, and without a
\* duration in the argument duration is the close time minus the creation time, a
\* non-negative integer.
C13_CloseSetsDurationThenOverlays ==
    [][(lastOp'.op = "close" /\ lastOp'.status = "ok") =>
          LET ref == lastOp'.ret
              extra == lastOp'.arg.o
              old == logs[ref].payload
              new == logs'[ref].payload
              d == now' - logs[ref].time
          IN  /\ DOMAIN new = DOMAIN old \cup {"duration"} \cup DOMAIN extra
              /\ \A k \in DOMAIN extra : new[k] = extra[k]
              /\ \A k \in DOMAIN old \ (DOMAIN extra \cup {"duration"}) : new[k] = old[k]
              /\ d >= 0
              /\ "duration" \notin DOMAIN extra => new["duration"] = IntV(d)]_vars

\* C13 witness: a close whose argument held a duration has overridden the computed
\* one and kept a key the record had before.
C13_Witness ==
    /\ lastOp.op = "close" /\ lastOp.status = "ok"
    /\ "duration" \in DOMAIN lastOp.arg.o
    /\ "a" \in DOMAIN logs[lastOp.ret].payload
    /\ logs[lastOp.ret].payload["duration"] = lastOp.arg.o["duration"]

Reserved == {"client_id", "job_id", "task_id"}

\* C14: dump lifts each reserved key of the payload to a top-level field of the same
\* value, its nested payload holds exactly the other keys with their values, and
\* is_active is at the top level only when the record's flag is defined.
C14_DumpLiftsReservedKeys ==
    lastOp.op = "dump" =>
        LET log == logs[result.ref]
            out == result.out
        IN  /\ \A k \in Reserved \cap DOMAIN log.payload :
                  k \in DOMAIN out /\ out[k] = log.payload[k]
            /\ DOMAIN out["payload"] = DOMAIN log.payload \ Reserved
            /\ \A k \in DOMAIN out["payload"] : out["payload"][k] = log.payload[k]
            /\ ("is_active" \in DOMAIN out) <=> (log.isActive # "undefined")
            /\ "is_active" \in DOMAIN out => out["is_active"] = log.isActive

\* C14 witness: a record holding two reserved keys and another key was dumped in a
\* host with a focus state.
C14_Witness ==
    /\ lastOp.op = "dump"
    /\ {"client_id", "job_id", "is_active"} \subseteq DOMAIN result.out
    /\ DOMAIN result.out["payload"] = {"a"}

\* C15: dump leaves the record, with its reserved payload keys, and the buffer as they
\* were, and a dump that follows a dump of the same record returns the same.
C15_DumpIsReadOnly ==
    [][lastOp'.op = "dump" =>
          /\ logs' = logs
          /\ collection' = collection
          /\ (lastOp.op = "dump" /\ lastOp.ret = lastOp'.ret) => result'.out = result.out]_vars

\* C15 witness: a record was dumped and still holds a reserved key in its payload.
C15_Witness ==
    /\ lastOp.op = "dump"
    /\ "client_id" \in DOMAIN logs[lastOp.ret].payload
    /\ "client_id" \in DOMAIN result.out

\* What a call of logFactory with the given tag left in result.
FactoryCalled(tag) == result.op = "logFactory" /\ result.logType = tag

\* A payload field that is an integer not less than min.
FieldOk(o, k, min) == k \in DOMAIN o /\ o[k].kind = "int" /\ o[k].n >= min

Serializable(o) == \A k \in DOMAIN o : o[k].kind # "circular"

\* C16 as stated: for the delete-object tag logFactory returns a record exactly when
\* payload.count is an integer of at least 1, and otherwise fails with an
\* ArgumentError that names "count".
C16_DeleteObjectIffCount ==
    FactoryCalled("deleteObject") =>
        IF FieldOk(result.payload, "count", 1)
        THEN result.returns = "Log"
        ELSE result.returns = "ArgumentError" /\ result.field = "count"

\* C16: for the delete-object tag and a payload JSON.stringify accepts, logFactory
\* returns a record exactly when payload.count is an integer of at least 1 and
\* otherwise fails with an ArgumentError that names "count"; a payload
\* JSON.stringify rejects fails with the ArgumentError of the base constructor,
\* which names no field, whatever its count.
C16_DeleteObjectCountChecked ==
    FactoryCalled("deleteObject") =>
        IF ~Serializable(result.payload)
        THEN result.returns = "ArgumentError" /\ result.field = ""
        ELSE IF FieldOk(result.payload, "count", 1)
        THEN result.returns = "Log" /\ result.field = "none"
        ELSE result.returns = "ArgumentError" /\ result.field = "count"

C16_Witness ==
    /\ FactoryCalled("deleteObject")
    /\ result.payload = Object1("count", IntV(0))
    /\ result.returns = "ArgumentError"
    /\ result.field = "count"

\* The least value logFactory accepts for a field of a send-task-info payload.
TaskInfoMin(k) == IF k = "frame count" THEN 1 ELSE 0

\* The positions of TaskInfoFields whose field is not an integer of at least its least value.
TaskInfoBad(o) ==
    {i \in DOMAIN TaskInfoFields : ~FieldOk(o, TaskInfoFields[i], TaskInfoMin(TaskInfoFields[i]))}

FirstBad(o) == TaskInfoFields[CHOOSE i \in TaskInfoBad(o) : \A j \in TaskInfoBad(o) : i <= j]

\* C17 as stated: for the send-task-info tag logFactory returns a record exactly
\* when all seven fields are integers within their least values; otherwise it fails
\* with an ArgumentError naming the first failing field in the listed order.
C17_TaskInfoIffFields ==
    FactoryCalled("sendTaskInfo") =>
        IF TaskInfoBad(result.payload) = {}
        THEN result.returns = "Log"
        ELSE result.returns = "ArgumentError" /\ result.field = FirstBad(result.payload)

\* C17: for the send-task-info tag and a payload JSON.stringify accepts, logFactory
\* returns a record exactly when "track count", "object count", "box count",
\* "polygon count", "polyline count" and "points count" are integers of at least 0
\* and "frame count" is an integer of at least 1, and otherwise fails with an
\* ArgumentError naming the first failing field in that order; a payload
\* JSON.stringify rejects fails with the ArgumentError of the base constructor,
\* which names no field.
C17_TaskInfoFieldsChecked ==
    FactoryCalled("sendTaskInfo") =>
        IF ~Serializable(result.payload)
        THEN result.returns = "ArgumentError" /\ result.field = ""
        ELSE IF TaskInfoBad(result.payload) = {}
        THEN result.returns = "Log" /\ result.field = "none"
        ELSE result.returns = "ArgumentError" /\ result.field = FirstBad(result.payload)

C17_Witness ==
    /\ FactoryCalled("sendTaskInfo")
    /\ Serializable(result.payload)
    /\ DOMAIN result.payload = Range(TaskInfoFields)
    /\ result.payload["track count"] = IntV(0)
    /\ result.payload["frame count"] = IntV(0)
    /\ result.payload["box count"] = IntV(-1)
    /\ result.returns = "ArgumentError"
    /\ result.field = "frame count"

Specialised == {"deleteObject", "sendTaskInfo"}

C20_HandedAtMostOnce ==
    /\ \A i, j \in DOMAIN collection : collection[i] = collection[j] => i = j
    /\ \A f, g \in DOMAIN pending :
          f # g => Range(pending[f].refs) \cap Range(pending[g].refs) = {}

====
